---- MODULE Spec2Model ----
(***************************************************************************)
(* NullStorage (src/data_storage/impls/null_storage.rs): the discard       *)
(* backend of the resumable-upload storage contract, over a shared         *)
(* directory tree, called concurrently by a bounded number of tasks.       *)
(*                                                                         *)
(* A path is the sequence of its components; the canonical base directory  *)
(* is <<"data">>.  An Option is a sequence of length 0 (None) or 1 (Some). *)
(***************************************************************************)
EXTENDS Naturals, Sequences, FiniteSets, TLC

\* ---- bounds ----
MaxTime == 1           \* clock ticks (changes of the templated segment)
MaxPayload == 2        \* longest payload handed to add_bytes
MaxExtensions == 2     \* longest configured list of extensions

\* The calls that can be in flight at once: two, as in the claims about
\* concurrent calls.
Tasks == {"t1", "t2"}
Ids == {"a", "b"}
\* The upload records the protocol layer holds, one per id; concurrent calls
\* for one id are handed the same record.
FileInfos == Ids
DirStructs == {"", "{day}"}
\* protocol::extensions::Extensions, the variants server_info's test names and Checksum
Extensions == {"Creation", "Concatenation", "Termination", "Checksum"}

None == <<>>
Some(x) == <<x>>

\* ---- RustusResult ----
Pending == [tag |-> "Pending", val |-> <<>>]
Ok(v) == [tag |-> "Ok", val |-> v]
Err(e) == [tag |-> "Err", val |-> e]
Unit == <<>>
Response == <<"response">>

\* ---- RustusError ----
FileNotFound == <<"FileNotFound">>
UnableToRemove(path) == <<"UnableToRemove", path>>
\* `?` on a std::io::Error: From<std::io::Error> for RustusError, the generic
\* storage failure, which carries the io::Error (and so its kind).
FromIoError(kind) == <<"StdError", kind>>
Variant(e) == e[1]

VARIABLES
    dirs,              \* the directories that exist: data_dir (as its canonical path) and below
    files,             \* the backing store: path -> length of the file there
    now,               \* the clock substr_now reads
    dir_struct,        \* the configured directory template
    info,              \* FileInfo of each upload record: [id, path : Option(path)]
    calls,             \* per task: the storage call it is running, and its result
    tus_extensions,    \* state.config.tus_extensions: the enabled extensions, in configuration order
    hashers,           \* whether the build has the "hashers" feature
    response           \* Option: the response server_info has built

http == <<tus_extensions, hashers, response>>
vars == <<dirs, files, now, dir_struct, info, calls, tus_extensions, hashers, response>>

Idle == [op |-> "none", pc |-> "idle", fi |-> "a", path |-> <<>>, res |-> Pending,
         peers |-> {}, prior |-> {}]

\* ---- the filesystem primitives ----
CanonicalBase == <<"data">>

\* utils::dir_struct::substr_now: the template filled in from the current time.
SubstrNow(template, t) == IF template = "{day}" THEN <<ToString(t)>> ELSE <<>>

\* Path::exists on data_dir
DataDirExists(ds) == CanonicalBase \in ds

\* PathBuf::canonicalize on data_dir: fails with NotFound when it does not exist.
Canonicalize(ds) == IF DataDirExists(ds) THEN Ok(CanonicalBase) ELSE Err(FromIoError("NotFound"))

\* A create that takes an existing directory for an error, as mkdir does.
RecursiveCreate_FailsIfExists(ds, dir) ==
    IF dir \in ds
    THEN [res |-> Err(FromIoError("AlreadyExists")), dirs |-> ds]
    ELSE [res |-> Ok(Unit), dirs |-> ds \cup {SubSeq(dir, 1, n) : n \in 1..Len(dir)}]

\* DirBuilder::new().recursive(true).create(dir): creates the directory and its
\* missing ancestors; an existing directory is not an error.
RecursiveCreate(ds, dir) == [res |-> Ok(Unit), dirs |-> ds \cup {SubSeq(dir, 1, n) : n \in 1..Len(dir)}]

Exists(fs, path) == path \in DOMAIN fs

\* The open without create_new: create(true).truncate(true) takes an existing file.
OpenCreateNew_Truncates(fs, path) ==
    [res |-> Ok(Unit), files |-> (path :> 0) @@ fs]

\* OpenOptions .create_new(true).open(path): the exclusive create-if-absent.
OpenCreateNew(fs, path) ==
    IF Exists(fs, path)
    THEN [res |-> Err(FromIoError("AlreadyExists")), files |-> fs]
    ELSE [res |-> Ok(Unit), files |-> (path :> 0) @@ fs]

\* A removal that empties the file and leaves its name in the directory.
FsRemoveFile_Truncates(fs, path) ==
    IF Exists(fs, path)
    THEN [res |-> Ok(Unit), files |-> [fs EXCEPT ![path] = 0]]
    ELSE [res |-> Err(FromIoError("NotFound")), files |-> fs]

\* tokio::fs::remove_file(path)
FsRemoveFile(fs, path) ==
    IF Exists(fs, path)
    THEN [res |-> Ok(Unit), files |-> [q \in DOMAIN fs \ {path} |-> fs[q]]]
    ELSE [res |-> Err(FromIoError("NotFound")), files |-> fs]

UnitsOf(fs, id) == {q \in DOMAIN fs : q[Len(q)] = id}

InFlight(c) == c.pc \notin {"idle", "done"}

TypeOK ==
    /\ now \in 0..MaxTime
    /\ dir_struct \in DirStructs
    /\ \A f \in FileInfos : info[f].id = f /\ Len(info[f].path) <= 1
    /\ \A t \in Tasks : calls[t].pc \in {"idle", "mkdir", "create", "open", "delete", "done"}

InitStorage ==
    /\ dirs = {}
    /\ files = <<>>
    /\ now = 0
    /\ dir_struct \in DirStructs
    /\ info = [f \in FileInfos |-> [id |-> f, path |-> None]]
    /\ calls = [t \in Tasks |-> Idle]

\* The storage is exercised under one fixed configuration of the extensions.
Init ==
    /\ InitStorage
    /\ tus_extensions = <<>>
    /\ hashers = FALSE
    /\ response = None

\* ---- the handlers' decisions, as the code computes them ----

\* data_file_path, lines 40-44: canonicalize()?.join(substr_now(dir_struct))
data_file_path_dir(ds, template, t) ==
    LET base == Canonicalize(ds)
    IN  IF base.tag = "Ok" THEN Ok(base.val \o SubstrNow(template, t)) ELSE base

\* data_file_path joining a fixed name instead of the id.
data_file_path_join_NoId(dir, file_id) == Append(dir, "upload")

\* data_file_path, line 46: dir.join(file_id)
data_file_path_join(dir, file_id) == Append(dir, file_id)

\* get_contents without its early return.
get_contents_NoCheck(file_info) == Ok(Response)

\* get_contents: an empty body with a disposition header, whenever path is set.
get_contents(file_info) ==
    IF file_info.path = None THEN Err(FileNotFound) ELSE Ok(Response)

\* add_bytes as a persistent backend would do it: the payload reaches the file.
add_bytes_Persists(fs, file_info, bytes) ==
    [res |-> Ok(Unit),
     files |-> IF file_info.path # None /\ Exists(fs, file_info.path[1])
               THEN [fs EXCEPT ![file_info.path[1]] = @ + bytes]
               ELSE fs]

\* add_bytes: clears its own copy of the payload; _file_info is not read.
add_bytes(fs, file_info, bytes) == [res |-> Ok(Unit), files |-> fs]

\* concat_files as a persistent backend would end it: the part files are removed.
concat_files_RemovesParts(fs, file_info, parts_info) ==
    [res |-> IF file_info.path = None THEN Err(FileNotFound) ELSE Ok(Unit),
     files |-> LET gone == {q \in DOMAIN fs : \E part \in parts_info : part.path = Some(q)}
               IN  [q \in DOMAIN fs \ gone |-> fs[q]]]

\* concat_files: _parts_info is not read.
concat_files(fs, file_info, parts_info) ==
    [res |-> IF file_info.path = None THEN Err(FileNotFound) ELSE Ok(Unit), files |-> fs]

\* remove_file without the existence check: a missing file reaches the delete.
remove_file_check_NoExists(fs, file_info) ==
    IF file_info.path = None THEN Err(FileNotFound) ELSE Ok(file_info.path[1])

\* remove_file, lines 107-113: the two early returns; Ok carries data_path.
remove_file_check(fs, file_info) ==
    IF file_info.path = None THEN Err(FileNotFound)
    ELSE IF ~Exists(fs, file_info.path[1]) THEN Err(FileNotFound)
    ELSE Ok(file_info.path[1])

\* remove_file reporting success without deleting.
remove_file_delete_KeepsFile(fs, path) == [res |-> Ok(Unit), files |-> fs]

\* remove_file taking a file that is gone already for removed.
remove_file_delete_IgnoresMissing(fs, path) ==
    [res |-> Ok(Unit), files |-> [q \in DOMAIN fs \ {path} |-> fs[q]]]

\* remove_file, lines 114-118: the delete, its io::Error mapped to UnableToRemove.
remove_file_delete(fs, path) ==
    LET r == FsRemoveFile(fs, path)
    IN  [res |-> IF r.res.tag = "Ok" THEN Ok(Unit) ELSE Err(UnableToRemove(path)),
         files |-> r.files]

\* create_file, lines 84-92: the exclusive open, then shutdown, then the path as a string.
create_file_open(fs, path) ==
    LET r == OpenCreateNew(fs, path)
    IN  [res |-> IF r.res.tag = "Ok" THEN Ok(path) ELSE r.res, files |-> r.files]

\* ---- actions ----
Finish(t, op, f, r) ==
    calls' = [calls EXCEPT ![t] = [Idle EXCEPT !.op = op, !.pc = "done", !.fi = f, !.res = r]]

\* prepare: the existence check.
PrepareCheck(t) ==
    /\ calls[t].pc = "idle"
    /\ IF DataDirExists(dirs)
       THEN Finish(t, "prepare", "a", Ok(Unit))
       ELSE calls' = [calls EXCEPT ![t] = [Idle EXCEPT !.op = "prepare", !.pc = "create"]]
    /\ UNCHANGED <<dirs, files, now, dir_struct, info>>
    /\ UNCHANGED http

\* prepare: the recursive create of data_dir.
PrepareCreate(t) ==
    /\ calls[t].pc = "create"
    /\ calls[t].op = "prepare"
    /\ LET r == RecursiveCreate(dirs, CanonicalBase)
       IN  /\ dirs' = r.dirs
           /\ calls' = [calls EXCEPT ![t] = [Idle EXCEPT !.op = "prepare", !.pc = "done",
                                                         !.path = CanonicalBase, !.res = r.res]]
    /\ UNCHANGED <<files, now, dir_struct, info>>
    /\ UNCHANGED http

\* create_file -> data_file_path: canonicalize and the templated segment.
CreateResolve(t, f) ==
    /\ calls[t].pc = "idle"
    /\ LET dir == data_file_path_dir(dirs, dir_struct, now)
       IN  IF dir.tag = "Ok"
           THEN calls' = [calls EXCEPT ![t] =
                    [op |-> "create_file", pc |-> "mkdir", fi |-> f,
                     path |-> data_file_path_join(dir.val, info[f].id), res |-> Pending,
                     peers |-> {u \in Tasks \ {t} : /\ InFlight(calls[u])
                                                     /\ calls[u].op = "create_file"
                                                     /\ info[calls[u].fi].id = info[f].id},
                     prior |-> UnitsOf(files, info[f].id)]]
           ELSE Finish(t, "create_file", f, dir)
    /\ UNCHANGED <<dirs, files, now, dir_struct, info>>
    /\ UNCHANGED http

\* create_file -> data_file_path: the recursive create of the directory.
CreateMkdir(t) ==
    /\ calls[t].pc = "mkdir"
    /\ LET r == RecursiveCreate(dirs, SubSeq(calls[t].path, 1, Len(calls[t].path) - 1))
       IN  /\ dirs' = r.dirs
           /\ calls' = [calls EXCEPT ![t].pc = IF r.res.tag = "Ok" THEN "open" ELSE "done",
                                     ![t].res = IF r.res.tag = "Ok" THEN Pending ELSE r.res]
    /\ UNCHANGED <<files, now, dir_struct, info>>
    /\ UNCHANGED http

\* create_file: the exclusive open and the return.
CreateOpen(t) ==
    /\ calls[t].pc = "open"
    /\ LET r == create_file_open(files, calls[t].path)
       IN  /\ files' = r.files
           /\ calls' = [calls EXCEPT ![t].pc = "done", ![t].res = r.res]
    /\ UNCHANGED <<dirs, now, dir_struct, info>>
    /\ UNCHANGED http

\* get_contents taking the record mutably and filling in a storage path.
GetContents_SetsPath(t, f) ==
    /\ calls[t].pc = "idle"
    /\ Finish(t, "get_contents", f, Ok(Response))
    /\ info' = [info EXCEPT ![f].path = Some(Append(CanonicalBase, info[f].id))]
    /\ UNCHANGED <<dirs, files, now, dir_struct>>
    /\ UNCHANGED http

\* get_contents
GetContents(t, f) ==
    /\ calls[t].pc = "idle"
    /\ Finish(t, "get_contents", f, get_contents(info[f]))
    /\ UNCHANGED <<dirs, files, now, dir_struct, info>>
    /\ UNCHANGED http

\* add_bytes with a payload of n bytes
AddBytes(t, f, n) ==
    /\ calls[t].pc = "idle"
    /\ LET r == add_bytes(files, info[f], n)
       IN  /\ files' = r.files
           /\ Finish(t, "add_bytes", f, r.res)
    /\ UNCHANGED <<dirs, now, dir_struct, info>>
    /\ UNCHANGED http

\* concat_files with the records in parts as the parts
ConcatFiles(t, f, parts) ==
    /\ calls[t].pc = "idle"
    /\ LET r == concat_files(files, info[f], {info[part] : part \in parts})
       IN  /\ files' = r.files
           /\ Finish(t, "concat_files", f, r.res)
    /\ UNCHANGED <<dirs, now, dir_struct, info>>
    /\ UNCHANGED http

\* remove_file: the precondition and the existence check.
RemoveCheck(t, f) ==
    /\ calls[t].pc = "idle"
    /\ LET r == remove_file_check(files, info[f])
       IN  IF r.tag = "Ok"
           THEN calls' = [calls EXCEPT ![t] =
                    [Idle EXCEPT !.op = "remove_file", !.pc = "delete", !.fi = f, !.path = r.val,
                                 !.peers = {u \in Tasks \ {t} : /\ InFlight(calls[u])
                                                                 /\ calls[u].op = "remove_file"
                                                                 /\ calls[u].fi = f
                                                                 /\ calls[u].path = r.val}]]
           ELSE Finish(t, "remove_file", f, r)
    /\ UNCHANGED <<dirs, files, now, dir_struct, info>>
    /\ UNCHANGED http

\* remove_file: the delete.
RemoveDelete(t) ==
    /\ calls[t].pc = "delete"
    /\ LET r == remove_file_delete(files, calls[t].path)
       IN  /\ files' = r.files
           /\ calls' = [u \in Tasks |->
                 IF u = t THEN [calls[t] EXCEPT !.pc = "done", !.res = r.res]
                 ELSE IF r.res.tag = "Ok"
                      THEN [calls[u] EXCEPT !.prior = @ \ {calls[t].path}]
                      ELSE calls[u]]
    /\ UNCHANGED <<dirs, now, dir_struct, info>>
    /\ UNCHANGED http

\* The caller takes the result; the path a successful create_file returned
\* becomes the record's storage path.
Return(t) ==
    /\ calls[t].pc = "done"
    /\ LET created == calls[t].op = "create_file" /\ calls[t].res.tag = "Ok"
       IN  /\ info' = IF created
                      THEN [info EXCEPT ![calls[t].fi].path = Some(calls[t].res.val)]
                      ELSE info
    /\ calls' = [u \in Tasks |->
            IF u = t THEN Idle ELSE [calls[u] EXCEPT !.peers = @ \ {t}]]
    /\ UNCHANGED <<dirs, files, now, dir_struct>>
    /\ UNCHANGED http

\* The clock advances; the templated segment may change with it.
Tick ==
    /\ now < MaxTime
    /\ now' = now + 1
    /\ UNCHANGED <<dirs, files, dir_struct, info, calls>>
    /\ UNCHANGED http

Next ==
    \/ \E t \in Tasks : PrepareCheck(t)
    \/ \E t \in Tasks : PrepareCreate(t)
    \/ \E t \in Tasks, f \in FileInfos : CreateResolve(t, f)
    \/ \E t \in Tasks : CreateMkdir(t)
    \/ \E t \in Tasks : CreateOpen(t)
    \/ \E t \in Tasks, f \in FileInfos : GetContents(t, f)
    \/ \E t \in Tasks, f \in FileInfos, n \in 0..MaxPayload : AddBytes(t, f, n)
    \/ \E t \in Tasks, f \in FileInfos : \E parts \in SUBSET (FileInfos \ {f}) : ConcatFiles(t, f, parts)
    \/ \E t \in Tasks, f \in FileInfos : RemoveCheck(t, f)
    \/ \E t \in Tasks : RemoveDelete(t)
    \/ \E t \in Tasks : Return(t)
    \/ Tick

Spec == Init /\ [][Next]_vars

\* ---- server_info (src/protocol/core/server_info.rs) ----

\* Extensions::to_string: the extension's protocol name.
ExtensionName(x) ==
    CASE x = "Creation" -> "creation"
      [] x = "Concatenation" -> "concatenation"
      [] x = "Termination" -> "termination"
      [] x = "Checksum" -> "checksum"

\* config.extensions_vec(): the enabled extensions as a vector.
extensions_vec(config) == [i \in 1..Len(config) |-> config[i]]

\* [String]::join(sep): a string is the sequence of its pieces.
Join(strs, sep) ==
    [i \in 1..(IF Len(strs) = 0 THEN 0 ELSE 2 * Len(strs) - 1) |->
        IF i % 2 = 1 THEN strs[(i + 1) \div 2] ELSE sep]

\* HttpResponseBuilder::insert_header: the header is set, replacing a former value.
InsertHeader(headers, name, value) ==
    [h \in DOMAIN headers \cup {name} |-> IF h = name THEN value ELSE headers[h]]

ChecksumAlgorithms == <<"md5", ",", "sha1", ",", "sha256", ",", "sha512">>

\* server_info that sends the algorithms whatever is enabled.
server_info_AlwaysChecksum(config, feature) ==
    LET vec == extensions_vec(config)
        ext_str == Join([i \in 1..Len(vec) |-> ExtensionName(vec[i])], ",")
    IN  [status |-> "OK",
         headers |-> InsertHeader(InsertHeader(<<>>, "Tus-Extension", ext_str),
                                  "Tus-Checksum-Algorithm", ChecksumAlgorithms)]

\* server_info, lines 9-24; the checksum header is compiled in with "hashers" only.
server_info(config, feature) ==
    LET vec == extensions_vec(config)
        ext_str == Join([i \in 1..Len(vec) |-> ExtensionName(vec[i])], ",")
        with_ext == InsertHeader(<<>>, "Tus-Extension", ext_str)
    IN  [status |-> "OK",
         headers |-> IF feature /\ \E i \in 1..Len(config) : config[i] = "Checksum"
                     THEN InsertHeader(with_ext, "Tus-Checksum-Algorithm", ChecksumAlgorithms)
                     ELSE with_ext]

Configs == UNION {[1..n -> Extensions] : n \in 0..MaxExtensions}

InitInfo ==
    /\ InitStorage
    /\ tus_extensions \in Configs
    /\ hashers \in BOOLEAN
    /\ response = None

\* An OPTIONS request is answered.
ServerInfo ==
    /\ response = None
    /\ response' = Some(server_info(tus_extensions, hashers))
    /\ UNCHANGED <<dirs, files, now, dir_struct, info, calls, tus_extensions, hashers>>

NextInfo == ServerInfo

SpecInfo == InitInfo /\ [][NextInfo]_vars

\* ---- the claims ----
IsPreconditionError(r) == r.tag = "Err" /\ Variant(r.val) = "FileNotFound"
IsNotFoundError(r) == r.tag = "Err" /\ Variant(r.val) = "FileNotFound"
IsIoError(r) == r.tag = "Err" /\ Variant(r.val) \in {"StdError", "UnableToRemove"}

\* Task t begins a call of op on record f in this step.
Begins(t, op, f) ==
    /\ calls[t].pc = "idle"
    /\ calls'[t].pc # "idle"
    /\ calls'[t].op = op
    /\ calls'[t].fi = f

\* Record f's unit has been removed: f carries a path and no file is there.
\* A path is attached only after a successful create_file and a file goes
\* only in remove_file's delete, so this is the state after a remove_file of
\* that path has succeeded, with no create of it since.
WasRemoved(f) == info[f].path # None /\ ~Exists(files, info[f].path[1])

\* Task t's call returns in this step.
Returns(t) == calls[t].pc # "done" /\ calls'[t].pc = "done"

StoreUnchanged == files' = files /\ dirs' = dirs

\* C3: for a record whose storage path is unset, concat_files, get_contents and
\* remove_file each return at once with the precondition error (FileNotFound:
\* not an I/O error, not success) and leave the backing store unchanged.
C3_PreconditionEnforced ==
    [][\A t \in Tasks, f \in FileInfos :
          \A op \in {"concat_files", "get_contents", "remove_file"} :
            (Begins(t, op, f) /\ info[f].path = None)
                => /\ Returns(t)
                   /\ IsPreconditionError(calls'[t].res)
                   /\ ~IsIoError(calls'[t].res)
                   /\ StoreUnchanged]_vars

\* get_contents and remove_file have both failed on a record that was never created.
C3_Witness ==
    \E t, u \in Tasks :
        /\ calls[t].pc = "done" /\ calls[t].op = "get_contents"
        /\ calls[u].pc = "done" /\ calls[u].op = "remove_file"
        /\ info[calls[t].fi].path = None /\ info[calls[u].fi].path = None
        /\ calls[t].res = Err(FileNotFound) /\ calls[u].res = Err(FileNotFound)

\* C4: add_bytes on a record whose storage path is unset fails with a
\* precondition error; it never returns success.
C4_AppendNeedsPath ==
    \A t \in Tasks :
        (calls[t].pc = "done" /\ calls[t].op = "add_bytes" /\ info[calls[t].fi].path = None)
            => IsPreconditionError(calls[t].res)

\* C5: remove_file on a record whose storage path is set but whose file is
\* absent returns the not-found error, never success, and changes nothing
\* in the store.
C5_RemoveMissingIsNotFound ==
    [][\A t \in Tasks, f \in FileInfos :
          (/\ Begins(t, "remove_file", f)
           /\ info[f].path # None
           /\ ~Exists(files, info[f].path[1]))
              => /\ Returns(t)
                 /\ IsNotFoundError(calls'[t].res)
                 /\ StoreUnchanged]_vars

\* A remove_file has returned not-found for a record that carries a path with no file behind it.
C5_Witness ==
    \E t \in Tasks :
        /\ calls[t].pc = "done" /\ calls[t].op = "remove_file"
        /\ info[calls[t].fi].path # None
        /\ ~Exists(files, info[calls[t].fi].path[1])
        /\ calls[t].res = Err(FileNotFound)

\* C1: two create_file calls for the same id that run concurrently, began
\* with no unit of that id in the store and both reach the exclusive open,
\* end with exactly one success and one creation-conflict error (here: the
\* AlreadyExists failure of the open); they never both succeed.
IsCreationConflict(r) == r = Err(FromIoError("AlreadyExists"))

ReachedOpen(c) == c.op = "create_file" /\ c.pc = "done" /\ c.path # <<>>

C1_AtomicCreate ==
    \A t, u \in Tasks :
        (/\ t # u
         /\ ReachedOpen(calls[t]) /\ ReachedOpen(calls[u])
         /\ info[calls[t].fi].id = info[calls[u].fi].id
         /\ u \in calls[t].peers
         /\ calls[t].prior = {} /\ calls[u].prior = {})
            => \/ calls[t].res.tag = "Ok" /\ IsCreationConflict(calls[u].res)
               \/ calls[u].res.tag = "Ok" /\ IsCreationConflict(calls[t].res)

\* C2: a create_file that began while a unit created for its id existed, that
\* unit not removed since, fails at its open and leaves the store as it was.
C2_NoSilentOverwrite ==
    [][\A t \in Tasks :
          (calls[t].pc = "open" /\ Returns(t) /\ calls[t].prior # {})
              => calls'[t].res.tag = "Err" /\ files' = files]_vars

\* C6: remove_file on a record whose unit exists proceeds to the delete, the
\* delete of a unit that is (still) there succeeds and the unit is gone
\* afterwards; a remove_file on a record whose remove has succeeded, with no
\* create in between, fails and changes nothing.  (The calls on one id are
\* the caller's to serialise; two racing removes are another claim's.)
C6_RemoveThenRemoveAgain ==
    [][\A t \in Tasks :
          /\ \A f \in FileInfos :
                (/\ Begins(t, "remove_file", f)
                 /\ info[f].path # None
                 /\ Exists(files, info[f].path[1]))
                    => calls'[t].pc = "delete" /\ calls'[t].path = info[f].path[1]
          /\ (calls[t].pc = "delete" /\ Returns(t) /\ Exists(files, calls[t].path))
                => /\ calls'[t].res = Ok(Unit)
                   /\ ~Exists(files', calls[t].path)
          /\ \A f \in FileInfos :
                (Begins(t, "remove_file", f) /\ WasRemoved(f))
                    => Returns(t) /\ calls'[t].res.tag = "Err" /\ StoreUnchanged]_vars

\* A remove_file has failed on a record whose earlier remove_file succeeded.
C6_Witness ==
    \E t \in Tasks :
        /\ calls[t].pc = "done" /\ calls[t].op = "remove_file"
        /\ WasRemoved(calls[t].fi)
        /\ calls[t].res.tag = "Err"

\* C7: get_contents on a record whose remove_file has succeeded fails,
\* although the record still carries its storage path.
C7_FetchAfterRemoveFails ==
    [][\A t \in Tasks, f \in FileInfos :
          (Begins(t, "get_contents", f) /\ WasRemoved(f))
              => calls'[t].res.tag = "Err"]_vars

\* C8: remove_file's error for an unset storage path differs from its error
\* for a path that is set while the file is missing.
C8_RemoveErrorsDistinct ==
    \A t, u \in Tasks :
        (/\ calls[t].pc = "done" /\ calls[t].op = "remove_file"
         /\ calls[u].pc = "done" /\ calls[u].op = "remove_file"
         /\ calls[t].res.tag = "Err" /\ calls[u].res.tag = "Err"
         /\ info[calls[t].fi].path = None
         /\ WasRemoved(calls[u].fi))
            => calls[t].res # calls[u].res

\* C9: the error of a create_file rejected because the unit exists is of
\* another kind of RustusError than the error of a create_file that failed on
\* another I/O fault (data_dir missing).
C9_ConflictErrorDistinct ==
    \A t, u \in Tasks :
        (/\ ReachedOpen(calls[t]) /\ calls[t].res.tag = "Err"
         /\ calls[u].op = "create_file" /\ calls[u].pc = "done"
         /\ calls[u].path = <<>> /\ calls[u].res.tag = "Err")
            => Variant(calls[t].res.val) # Variant(calls[u].res.val)

\* C10: every unit has length zero; add_bytes succeeds whatever the payload
\* and leaves the store as it was; get_contents succeeds on a record that
\* carries the path create_file returned.
C10_DiscardRoundTrip ==
    /\ [](\A q \in DOMAIN files : files[q] = 0)
    /\ [][\A t \in Tasks, f \in FileInfos :
            /\ Begins(t, "add_bytes", f)
                  => Returns(t) /\ calls'[t].res = Ok(Unit) /\ StoreUnchanged
            /\ (Begins(t, "get_contents", f) /\ info[f].path # None)
                  => Returns(t) /\ calls'[t].res = Ok(Response) /\ StoreUnchanged]_vars

\* After a create_file, an add_bytes and a get_contents have both succeeded
\* and the unit is there, empty.
C10_Witness ==
    \E t, u \in Tasks :
        /\ calls[t].pc = "done" /\ calls[t].op = "add_bytes" /\ calls[t].res = Ok(Unit)
        /\ calls[u].pc = "done" /\ calls[u].op = "get_contents" /\ calls[u].res = Ok(Response)
        /\ calls[t].fi = calls[u].fi
        /\ info[calls[t].fi].path # None
        /\ Exists(files, info[calls[t].fi].path[1])
        /\ files[info[calls[t].fi].path[1]] = 0

\* C11 as claimed: concat_files succeeds only when the target record's unit
\* exists in the backing store, and changes nothing in the store.
C11_ConcatValidatesUnit ==
    [][\A t \in Tasks, f \in FileInfos :
          Begins(t, "concat_files", f)
              => /\ Returns(t)
                 /\ calls'[t].res.tag = "Ok"
                       => info[f].path # None /\ Exists(files, info[f].path[1])
                 /\ StoreUnchanged]_vars

\* C11 as amended: concat_files succeeds exactly when the target record's
\* storage path is set, whether or not the unit is still in the store, fails
\* with FileNotFound otherwise, and either way leaves every unit (the
\* target's and the parts') as it was.
C11_ConcatValidatesPath ==
    [][\A t \in Tasks, f \in FileInfos :
          Begins(t, "concat_files", f)
              => /\ Returns(t)
                 /\ calls'[t].res = IF info[f].path # None THEN Ok(Unit) ELSE Err(FileNotFound)
                 /\ StoreUnchanged]_vars

\* concat_files has succeeded on a record whose unit was removed, while
\* another record's unit, a possible part, is still in the store.
C11_Witness ==
    \E t \in Tasks, g \in FileInfos :
        /\ calls[t].pc = "done" /\ calls[t].op = "concat_files"
        /\ calls[t].res = Ok(Unit)
        /\ WasRemoved(calls[t].fi)
        /\ g # calls[t].fi
        /\ info[g].path # None /\ Exists(files, info[g].path[1])

\* The Tus-Extension header is the enabled extensions' names, in configuration
\* order, with a comma between neighbours.
ExtensionHeaderJoined(headers) ==
    /\ "Tus-Extension" \in DOMAIN headers
    /\ LET h == headers["Tus-Extension"]
           n == Len(tus_extensions)
       IN  /\ Len(h) = IF n = 0 THEN 0 ELSE 2 * n - 1
           /\ \A i \in 1..n : h[2 * i - 1] = ExtensionName(tus_extensions[i])
           /\ \A i \in 1..(n - 1) : h[2 * i] = ","

ChecksumEnabled == \E i \in 1..Len(tus_extensions) : tus_extensions[i] = "Checksum"

ChecksumHeaderSent(headers) ==
    /\ "Tus-Checksum-Algorithm" \in DOMAIN headers
    /\ headers["Tus-Checksum-Algorithm"] = <<"md5", ",", "sha1", ",", "sha256", ",", "sha512">>

C13_OneFilePerId ==
    \A id \in Ids :
        /\ Cardinality(UnitsOf(files, id)) <= 1
        /\ \A q \in UnitsOf(files, id) :
              \E t \in 0..MaxTime : q = (CanonicalBase \o SubstrNow(dir_struct, t)) \o <<id>>

ParentOf(path) == SubSeq(path, 1, Len(path) - 1)

\* C14: the directory creations never fail on a directory that is there
\* already, whoever made it and whenever: prepare's create of data_dir
\* returns Ok with data_dir in place, and data_file_path's create of the
\* templated directory lets create_file go on to its open with the directory
\* in place, in every interleaving of the calls.
C14_DirectoryCreationIdempotent ==
    [][\A t \in Tasks :
          /\ (calls[t].pc = "create" /\ calls'[t] # calls[t])
                => /\ calls'[t].pc = "done"
                   /\ calls'[t].res = Ok(Unit)
                   /\ DataDirExists(dirs')
          /\ (calls[t].pc = "mkdir" /\ calls'[t].pc # "mkdir")
                => /\ calls'[t].pc = "open"
                   /\ ParentOf(calls[t].path) \in dirs'
          /\ (Returns(t) /\ calls'[t].op = "prepare") => calls'[t].res = Ok(Unit)]_vars

\* Two concurrent prepare calls have both found data_dir missing and both
\* created it, the second one over the first one's directory; both returned Ok.
C14_Witness ==
    \E t, u \in Tasks :
        /\ t # u
        /\ calls[t].op = "prepare" /\ calls[t].pc = "done" /\ calls[t].path = CanonicalBase
        /\ calls[u].op = "prepare" /\ calls[u].pc = "done" /\ calls[u].path = CanonicalBase
        /\ calls[t].res = Ok(Unit) /\ calls[u].res = Ok(Unit)

RecordOps == {"add_bytes", "concat_files", "get_contents", "remove_file"}

\* The task t takes a step of the call it is in (or begins one).
Steps(t) == calls'[t].pc # calls[t].pc /\ calls'[t].op # "none"

\* C16: no step changes a record's id; a record's storage path changes only
\* when the result of a successful create_file for that record is taken, and
\* then to the path that create_file returned; no step of add_bytes,
\* concat_files, get_contents or remove_file changes any record.
C16_PathOnlyFromCreate ==
    [][/\ \A f \in FileInfos :
            /\ info'[f].id = info[f].id
            /\ info'[f].path # info[f].path
                  => \E t \in Tasks :
                        /\ calls[t].op = "create_file" /\ calls[t].pc = "done"
                        /\ calls[t].res.tag = "Ok" /\ calls[t].fi = f
                        /\ info'[f].path = Some(calls[t].res.val)
       /\ \A t \in Tasks :
            (Steps(t) /\ calls'[t].op \in RecordOps) => info' = info]_vars

\* A record carries the path its create_file returned, a remove_file given
\* that record has succeeded, and the record still carries that path.
C16_Witness ==
    \E t \in Tasks :
        /\ calls[t].op = "remove_file" /\ calls[t].pc = "done" /\ calls[t].res = Ok(Unit)
        /\ info[calls[t].fi].path = Some(calls[t].path)
        /\ info[calls[t].fi].id = calls[t].fi

\* ---- C17 ----
\* t and u are remove_file calls given the same record (the same id and the
\* same storage path) that both passed the existence check before either
\* returned, and both have come to their result.
ConcurrentRemoves(t, u) ==
    /\ t # u
    /\ calls[t].op = "remove_file" /\ calls[u].op = "remove_file"
    /\ calls[t].pc = "done" /\ calls[u].pc = "done"
    /\ calls[t].fi = calls[u].fi
    /\ calls[t].path # <<>> /\ calls[t].path = calls[u].path
    /\ t \in calls[u].peers

\* C17: of two concurrent remove_file calls for the same record whose unit
\* existed, exactly one returns success, the other returns an error (the
\* delete's, UnableToRemove), and the unit is absent afterwards.
C17_ConcurrentRemoveOneWins ==
    \A t, u \in Tasks :
        ConcurrentRemoves(t, u)
            => /\ ~(calls[t].res.tag = "Ok" /\ calls[u].res.tag = "Ok")
               /\ calls[t].res.tag = "Ok" \/ calls[u].res.tag = "Ok"
               /\ calls[t].res.tag = "Err" \/ calls[u].res.tag = "Err"
               /\ \A v \in {t, u} :
                     calls[v].res.tag = "Err" => calls[v].res = Err(UnableToRemove(calls[v].path))
               /\ ~Exists(files, calls[t].path)

\* Both checks passed, then both deletes ran: the later one found nothing.
C17_Witness ==
    \E t, u \in Tasks :
        /\ ConcurrentRemoves(t, u)
        /\ calls[t].res = Ok(Unit)
        /\ calls[u].res = Err(UnableToRemove(calls[u].path))

\* ---- C18 ----
\* The record of u's create_file carries the path u resolved to (an earlier
\* create_file for the id returned it), a remove_file has since removed the
\* file at that path with success, and no file was created there after that
\* removal and before u's call began.
CreatedThenRemoved(u) ==
    /\ calls[u].path \notin calls[u].prior
    /\ \E t \in Tasks \ {u} :
        /\ calls[t].op = "remove_file" /\ calls[t].pc = "done" /\ calls[t].res = Ok(Unit)
        /\ calls[t].fi = calls[u].fi
        /\ calls[t].path = calls[u].path
        /\ info[calls[u].fi].path = Some(calls[u].path)

\* C18: once the path is resolved, create_file succeeds if and only if no
\* file exists at that path when it opens; so a create_file that follows a
\* successful create_file and a successful remove_file for the same id, and
\* resolves to the same path, succeeds again and returns that path.
C18_NoMemoryOfPastUploads ==
    [][\A u \in Tasks :
          (calls[u].op = "create_file" /\ calls[u].pc = "open" /\ Returns(u))
              => /\ calls'[u].res.tag = "Ok" <=> ~Exists(files, calls[u].path)
                 /\ CreatedThenRemoved(u) => calls'[u].res = Ok(calls[u].path)]_vars

\* Created, removed, and created again at the same path: the file is there.
C18_Witness ==
    \E u \in Tasks :
        /\ calls[u].op = "create_file" /\ calls[u].pc = "done"
        /\ calls[u].res = Ok(calls[u].path)
        /\ CreatedThenRemoved(u)
        /\ Exists(files, calls[u].path)

\* ---- C19 ----
\* The units of the ids in ids exist in fs2 as in fs1, with the same length.
SameUnits(fs1, fs2, ids) ==
    \A g \in ids :
        /\ UnitsOf(fs2, g) = UnitsOf(fs1, g)
        /\ \A q \in UnitsOf(fs1, g) : fs2[q] = fs1[q]

\* C19: a step of create_file, add_bytes, concat_files, get_contents or
\* remove_file for one id leaves the units of every other id as they are, in
\* existence and in length; and a create_file that opens while its id has no
\* unit succeeds, whatever a concurrent create_file for another id has done
\* or is doing, so two such calls both succeed.
C19_IdsIndependent ==
    [][/\ \A t \in Tasks :
            (Steps(t) /\ calls'[t].op \in RecordOps \cup {"create_file"})
                => SameUnits(files, files', Ids \ {info[calls'[t].fi].id})
       /\ \A t, u \in Tasks :
            (/\ calls[t].op = "create_file" /\ calls[t].pc = "open" /\ Returns(t)
             /\ calls[u].op = "create_file"
             /\ info[calls[t].fi].id # info[calls[u].fi].id
             /\ UnitsOf(files, info[calls[t].fi].id) = {})
                => calls'[t].res = Ok(calls[t].path)]_vars

\* Two create_file calls for different ids, the second begun before the
\* first returned, have both succeeded, and each id's unit is in the store.
C19_Witness ==
    \E t, u \in Tasks :
        /\ ReachedOpen(calls[t]) /\ ReachedOpen(calls[u])
        /\ calls[t].fi = "a" /\ calls[u].fi = "b"
        /\ calls[t].res.tag = "Ok" /\ calls[u].res.tag = "Ok"
        /\ UnitsOf(files, "a") # {} /\ UnitsOf(files, "b") # {}

====
